---- MODULE Spec2Model ----
(***************************************************************************)
(* Coderr marketplace backend: the offers, orders, reviews and accounts     *)
(* resources as a state machine over the relational tables.   One action per  *)
(* HTTP handler; every handler is modelled whole, including the writes it  *)
(* has already made when a later step raises (no handler runs inside a     *)
(* transaction).  Two POST /reviews/ requests running at once are modelled *)
(* query by query, in inflight.                                            *)
(*                                                                         *)
(* Conventions                                                             *)
(*  - a table is a function from primary key to row; keys are never reused *)
(*    (auto-increment), so each table has a next-key counter;              *)
(*  - column values are JSON scalars written as their text ("10", "[a]");  *)
(*    Python's None is the value None below;                               *)
(*  - request.user.id is read as the requester's primary key;              *)
(*  - requesters are authenticated accounts; file/image columns and the    *)
(*    created_at/updated_at timestamps are left out;                       *)
(*  - resp is the last request and its answer.                             *)
(***************************************************************************)
EXTENDS Integers, Sequences, FiniteSets, TLC

VARIABLES users, offers, details, orders, nextOffer, nextDetail, nextOrder, resp,
          nextUser, tokens, reviews, nextReview, inflight

vars == <<users, offers, details, orders, nextOffer, nextDetail, nextOrder, resp,
          nextUser, tokens, reviews, nextReview, inflight>>

\* the accounts side besides the users table, and the reviews side
authVars == <<nextUser, tokens>>

reviewVars == <<reviews, nextReview, inflight>>

\* ---------------------------------------------------------------- bounds
MaxOffers == 1
MaxOrders == 2
MaxDetails == 4

\* ------------------------------------------------------------ primitives
None == "None"

\* dict.get(k): the value under k, None when the key is absent
Get(d, k) == IF k \in DOMAIN d THEN d[k] ELSE None

\* dict.get(k, dflt) / a model column default
GetOr(d, k, dflt) == IF k \in DOMAIN d THEN d[k] ELSE dflt

Restrict(f, S) == [i \in S |-> f[i]]

OfferTypes == {"basic", "standard", "premium"}

OrderStatus == {"in_progress", "completed", "cancelled"}

\* ------------------------------------------------------------- accounts
UserProfile(username, email, t, staff, super) ==
    [username |-> username, email |-> email, type |-> t,
     is_staff |-> staff, is_superuser |-> super]

\* the accounts the deployment starts with: a customer, a business user and
\* a business account the admin site has flagged staff and superuser
InitUsers ==
    (1 :> UserProfile("carl", "carl@x.de", "customer", FALSE, FALSE)) @@
    (2 :> UserProfile("bea", "bea@x.de", "business", FALSE, FALSE)) @@
    (3 :> UserProfile("admin", "admin@x.de", "business", TRUE, TRUE))

Respond(op, u, pk, data, status, out) ==
    resp' = [op |-> op, user |-> u, pk |-> pk, data |-> data, status |-> status, out |-> out]

Init ==
    /\ users = InitUsers
    /\ offers = <<>>
    /\ details = <<>>
    /\ orders = <<>>
    /\ nextOffer = 1
    /\ nextDetail = 1
    /\ nextOrder = 1
    /\ nextUser = Cardinality(DOMAIN InitUsers) + 1
    /\ tokens = {}
    /\ reviews = <<>>
    /\ nextReview = 1
    /\ inflight = <<>>
    /\ resp = [op |-> "none", user |-> 0, pk |-> 0, data |-> <<>>, status |-> 0, out |-> 0]

\* ------------------------------------------------- offers: permissions
\* has_permission that stops at the authentication test
IsAuthenticated(u) == u \in DOMAIN users

\* IsBusinessUser.has_permission for a write method
IsBusinessUser(u) == users[u].type = "business" \/ users[u].is_superuser

\* has_object_permission that stops at the authentication test
IsAuthenticatedOnly(u, obj) == u \in DOMAIN users

\* IsOwnerOrAdminOrReadOnly.has_object_permission for a write method
IsOwnerOrAdminOrReadOnly(u, obj) == u = obj.user \/ users[u].is_superuser

\* ------------------------------------------------- offers: serializers
\* OfferDetailsSerializer: title and offer_type are required, offer_type is
\* a choice, revisions (NOT NULL with a default) may be absent but not null
OfferDetailsSerializer(d) ==
    /\ "title" \in DOMAIN d /\ d.title # None
    /\ "offer_type" \in DOMAIN d /\ d.offer_type \in OfferTypes
    /\ "revisions" \in DOMAIN d => d.revisions # None

DetailsValid(dd) == \A i \in 1..Len(dd) : OfferDetailsSerializer(dd[i])

\* OfferCreateSerializer.is_valid: title and details are required fields
OfferCreateSerializer(data) ==
    /\ "title" \in DOMAIN data /\ data.title # None
    /\ "details" \in DOMAIN data
    /\ DetailsValid(data.details)

\* OfferUpdateSerializer.is_valid: built without partial=True, so title
\* stays required; details is declared required=False
OfferUpdateSerializer(data) ==
    /\ "title" \in DOMAIN data /\ data.title # None
    /\ "details" \in DOMAIN data => DetailsValid(data.details)

\* Offer(user_id=..., **validated_data)
Offer(u, data) ==
    [user |-> u, title |-> data.title, description |-> GetOr(data, "description", "")]

\* OfferDetails(offer=offer, **detail) with the column defaults
OfferDetails(offer, d) ==
    [offer |-> offer,
     title |-> d.title,
     revisions |-> GetOr(d, "revisions", "0"),
     delivery_time_in_days |-> Get(d, "delivery_time_in_days"),
     price |-> Get(d, "price"),
     features |-> GetOr(d, "features", "[]"),
     offer_type |-> d.offer_type]

\* the check in OfferCreateSerializer.create: a non-empty list must hold 3
WrongDetailsCount(details_data) == details_data # <<>> /\ Len(details_data) # 3

\* bulk_create of the offer's rows, keys taken in list order
BulkCreate(offer, details_data) ==
    [i \in nextDetail..(nextDetail + Len(details_data) - 1) |->
        OfferDetails(offer, details_data[i - nextDetail + 1])]

\* related manager offer.details
DetailsOf(dets, offer) == {i \in DOMAIN dets : dets[i].offer = offer}

\* POST /offers/, while fewer than cap offers have been created
OfferPostUpTo(u, data, cap) ==
    /\ nextOffer <= cap
    /\ UNCHANGED <<users, authVars, reviewVars, orders, nextOrder>>
    /\ IF ~IsBusinessUser(u)
       THEN /\ Respond("offer_post", u, 0, data, 403, 0)
            /\ UNCHANGED <<offers, details, nextOffer, nextDetail>>
       ELSE IF ~OfferCreateSerializer(data)
       THEN /\ Respond("offer_post", u, 0, data, 400, 0)
            /\ UNCHANGED <<offers, details, nextOffer, nextDetail>>
       ELSE \* serializer.save(): the Offer row is written first
            /\ offers' = (nextOffer :> Offer(u, data)) @@ offers
            /\ nextOffer' = nextOffer + 1
            /\ IF WrongDetailsCount(data.details)
               THEN /\ Respond("offer_post", u, 0, data, 400, 0)
                    /\ UNCHANGED <<details, nextDetail>>
               ELSE /\ details' = BulkCreate(nextOffer, data.details) @@ details
                    /\ nextDetail' = nextDetail + Len(data.details)
                    /\ Respond("offer_post", u, 0, data, 201, nextOffer)

\* POST /offers/
OfferPost(u, data) == OfferPostUpTo(u, data, MaxOffers)

\* one pass of the loop body of OfferUpdateSerializer.update on row r
UpdateDetail(r, detail_data) ==
    [r EXCEPT
        !.title = IF r.title # None THEN Get(detail_data, "title") ELSE @,
        !.revisions = IF r.revisions # None THEN Get(detail_data, "revisions") ELSE @,
        !.delivery_time_in_days =
            IF r.delivery_time_in_days # None
            THEN Get(detail_data, "delivery_time_in_days") ELSE @,
        !.price = IF r.price # None THEN Get(detail_data, "price") ELSE @,
        !.features = IF r.features # None THEN Get(detail_data, "features") ELSE @]

\* OfferDetails.save(): title and revisions are NOT NULL columns
DetailSaves(r) == r.title # None /\ r.revisions # None

\* OfferDetails.objects.get(offer=instance, offer_type=t): the matching keys
DetailsGet(dets, offer, t) == {i \in DetailsOf(dets, offer) : dets[i].offer_type = t}

\* a loop that writes its first entry to every stored row, whatever the
\* row's offer and tier tag
UpdateEveryRow(dets, offer, details_data, i) ==
    [details |-> [d \in DOMAIN dets |->
                     IF details_data # <<>> THEN UpdateDetail(dets[d], details_data[1])
                     ELSE dets[d]],
     status |-> 200]

\* the details loop of OfferUpdateSerializer.update from entry i on; rows
\* written before an entry raises stay written
RECURSIVE UpdateDetails(_, _, _, _)
UpdateDetails(dets, offer, details_data, i) ==
    IF i > Len(details_data) THEN [details |-> dets, status |-> 200]
    ELSE LET m == DetailsGet(dets, offer, details_data[i].offer_type) IN
         IF m = {} THEN [details |-> dets, status |-> 400]          \* DoesNotExist
         ELSE IF Cardinality(m) > 1 THEN [details |-> dets, status |-> 500]
         ELSE LET k == CHOOSE x \in m : TRUE
                  r == UpdateDetail(dets[k], details_data[i]) IN
              IF ~DetailSaves(r) THEN [details |-> dets, status |-> 500]
              ELSE UpdateDetails([dets EXCEPT ![k] = r], offer, details_data, i + 1)

\* super().update(instance, validated_data): the offer's own columns
UpdateOffer(o, data) ==
    [o EXCEPT !.title = data.title,
              !.description = GetOr(data, "description", @)]

\* PATCH /offers/{pk}/
OfferPatch(u, pk, data) ==
    /\ UNCHANGED <<users, authVars, reviewVars, orders, nextOffer, nextDetail, nextOrder>>
    /\ IF pk \notin DOMAIN offers
       THEN /\ Respond("offer_patch", u, pk, data, 404, 0)
            /\ UNCHANGED <<offers, details>>
       ELSE IF ~IsOwnerOrAdminOrReadOnly(u, offers[pk])
       THEN /\ Respond("offer_patch", u, pk, data, 403, 0)
            /\ UNCHANGED <<offers, details>>
       ELSE IF ~OfferUpdateSerializer(data)
       THEN /\ Respond("offer_patch", u, pk, data, 400, 0)
            /\ UNCHANGED <<offers, details>>
       ELSE LET res == UpdateDetails(details, pk, GetOr(data, "details", <<>>), 1) IN
            /\ offers' = [offers EXCEPT ![pk] = UpdateOffer(@, data)]
            /\ details' = res.details
            /\ Respond("offer_patch", u, pk, data, res.status, 0)

\* a cascade that takes the details of every offer
CascadeAll(dets, pk) == DOMAIN dets

\* Offer.delete(): the rows CASCADE removes with the offer
OfferCascade(dets, pk) == DetailsOf(dets, pk)

\* ------------------------------------------------------ request inputs
Basic ==
    [title |-> "Basic", revisions |-> "2", delivery_time_in_days |-> "5",
     price |-> "100", features |-> "[a]", offer_type |-> "basic"]

Standard ==
    [title |-> "Standard", revisions |-> "5", delivery_time_in_days |-> "7",
     price |-> "200", features |-> "[a,b]", offer_type |-> "standard"]

\* only the required keys: price and delivery time are stored as None
Premium == [title |-> "Premium", offer_type |-> "premium"]

\* a rewrite of the basic tier
Basic2 ==
    [title |-> "Basic v2", revisions |-> "3", delivery_time_in_days |-> "4",
     price |-> "150", features |-> "[c]", offer_type |-> "basic"]

\* a partial rewrite of the standard tier: price, delivery time and features
\* are not sent
Standard2 == [title |-> "Standard v2", revisions |-> "6", offer_type |-> "standard"]

Tiers == <<Basic, Standard, Premium>>

\* a details list of n entries, going round the three tiers
DetailList(n) == [i \in 1..n |-> Tiers[((i - 1) % 3) + 1]]

\* lists of 0..MaxDetails entries, and one of 3 entries with a repeated tag
DetailLists == {DetailList(n) : n \in 0..MaxDetails} \cup {<<Basic, Basic, Premium>>}

SeqsUpTo(S, n) == UNION {[1..k -> S] : k \in 0..n}

Users == DOMAIN users

\* OfferDelete as it would be were Order tied to the offer by a cascading
\* foreign key: the orders on the deleted offer's owner go with it
OfferDeleteWithOrders(u, pk) ==
    /\ UNCHANGED <<users, authVars, reviewVars, nextOffer, nextDetail, nextOrder>>
    /\ IF pk \notin DOMAIN offers
       THEN /\ Respond("offer_delete", u, pk, <<>>, 404, 0)
            /\ UNCHANGED <<offers, details, orders>>
       ELSE IF ~IsOwnerOrAdminOrReadOnly(u, offers[pk])
       THEN /\ Respond("offer_delete", u, pk, <<>>, 403, 0)
            /\ UNCHANGED <<offers, details, orders>>
       ELSE /\ offers' = Restrict(offers, DOMAIN offers \ {pk})
            /\ details' = Restrict(details, DOMAIN details \ OfferCascade(details, pk))
            /\ orders' = Restrict(orders,
                   {o \in DOMAIN orders : orders[o].business_user # offers[pk].user})
            /\ Respond("offer_delete", u, pk, <<>>, 204, 0)

\* DELETE /offers/{pk}/
OfferDelete(u, pk) ==
    /\ UNCHANGED <<users, authVars, reviewVars, orders, nextOffer, nextDetail, nextOrder>>
    /\ IF pk \notin DOMAIN offers
       THEN /\ Respond("offer_delete", u, pk, <<>>, 404, 0)
            /\ UNCHANGED <<offers, details>>
       ELSE IF ~IsOwnerOrAdminOrReadOnly(u, offers[pk])
       THEN /\ Respond("offer_delete", u, pk, <<>>, 403, 0)
            /\ UNCHANGED <<offers, details>>
       ELSE /\ offers' = Restrict(offers, DOMAIN offers \ {pk})
            /\ details' = Restrict(details, DOMAIN details \ OfferCascade(details, pk))
            /\ Respond("offer_delete", u, pk, <<>>, 204, 0)

\* ------------------------------------------- the offers API on its own
OfferPostBodies ==
    {[title |-> "Offer", details |-> dd] : dd \in DetailLists}
    \cup {[title |-> "Offer"], [details |-> DetailList(3)]}

OfferPatchBodies ==
    {[title |-> "Offer v2", details |-> dd] : dd \in SeqsUpTo({Basic2, Standard2, Premium}, 2)}
    \cup {[title |-> "Offer v2"], [details |-> <<Basic2>>]}

OfferKeys == 1..MaxOffers

NextOffers ==
    \/ \E u \in Users, data \in OfferPostBodies : OfferPost(u, data)
    \/ \E u \in Users, pk \in OfferKeys, data \in OfferPatchBodies : OfferPatch(u, pk, data)
    \/ \E u \in Users, pk \in OfferKeys : OfferDelete(u, pk)

SpecOffers == Init /\ [][NextOffers]_vars

\* ------------------------------------------------------------- orders
\* a JSON value of offer_detail_id: a number [int |-> n] or a string
\* [str |-> s]; int(s) succeeds when s is the text of a key
IsStr(v) == "str" \in DOMAIN v

Numeric(s) == \E n \in 0..(nextDetail + 1) : ToString(n) = s

Int_(s) == CHOOSE n \in 0..(nextDetail + 1) : ToString(n) = s

\* PrimaryKeyRelatedField: the key a JSON value names (0, no row, when none)
PkOf(v) == IF IsStr(v) THEN (IF Numeric(v.str) THEN Int_(v.str) ELSE 0) ELSE v.int

\* OrderSerializer.validate: on POST only offer_detail_id may be sent
OrderValidate(data) == DOMAIN data \subseteq {"offer_detail_id"}

\* who OrdersView.post turns away with 403
OrderPostForbidden(u) == users[u].type = "business"

\* Order with the title taken from the offer instead of the tier row
OrderTitleFromOffer(u, od) ==
    [customer_user |-> u,
     business_user |-> offers[od.offer].user,
     title |-> offers[od.offer].title,
     revisions |-> od.revisions,
     delivery_time_in_days |-> od.delivery_time_in_days,
     price |-> od.price,
     features |-> od.features,
     offer_type |-> od.offer_type,
     status |-> "in_progress"]

\* the snapshot OrderSerializer.create takes of one OfferDetails row
Order(u, od) ==
    [customer_user |-> u,
     business_user |-> offers[od.offer].user,
     title |-> od.title,
     revisions |-> od.revisions,
     delivery_time_in_days |-> od.delivery_time_in_days,
     price |-> od.price,
     features |-> od.features,
     offer_type |-> od.offer_type,
     status |-> "in_progress"]

\* Order.objects.create: every copied column of Order is NOT NULL
OrderSaves(o) ==
    /\ o.title # None /\ o.revisions # None /\ o.delivery_time_in_days # None
    /\ o.price # None /\ o.features # None

\* POST /orders/
OrderPost(u, data) ==
    /\ nextOrder <= MaxOrders
    /\ UNCHANGED <<users, authVars, reviewVars, offers, details, nextOffer, nextDetail>>
    /\ IF "offer_detail_id" \in DOMAIN data /\ IsStr(data.offer_detail_id)
          /\ ~Numeric(data.offer_detail_id.str)
       THEN /\ Respond("order_post", u, 0, data, 400, 0)
            /\ UNCHANGED <<orders, nextOrder>>
       ELSE IF "offer_detail_id" \notin DOMAIN data
       THEN /\ Respond("order_post", u, 0, data, 400, 0)
            /\ UNCHANGED <<orders, nextOrder>>
       ELSE LET raw == data.offer_detail_id
                offer_details_id == IF IsStr(raw) THEN Int_(raw.str) ELSE raw.int IN
            IF offer_details_id \notin DOMAIN details
            THEN /\ Respond("order_post", u, offer_details_id, data, 400, 0)
                 /\ UNCHANGED <<orders, nextOrder>>
            ELSE IF OrderPostForbidden(u)
            THEN /\ Respond("order_post", u, offer_details_id, data, 403, 0)
                 /\ UNCHANGED <<orders, nextOrder>>
            ELSE IF ~OrderValidate(data)
            THEN /\ Respond("order_post", u, offer_details_id, data, 400, 0)
                 /\ UNCHANGED <<orders, nextOrder>>
            ELSE LET order == Order(u, details[offer_details_id]) IN
                 IF ~OrderSaves(order)
                 THEN /\ Respond("order_post", u, offer_details_id, data, 500, 0)
                      /\ UNCHANGED <<orders, nextOrder>>
                 ELSE /\ orders' = (nextOrder :> order) @@ orders
                      /\ nextOrder' = nextOrder + 1
                      /\ Respond("order_post", u, offer_details_id, data, 201, nextOrder)

\* OrderPatchAllowed without the ownership test
OrderPatchAnyBusiness(u, order) == users[u].type = "business"

\* the guard of OrdersView.patch
OrderPatchAllowed(u, order) ==
    users[u].type = "business" /\ order.business_user = u

\* OrderSerializer.is_valid(partial=True): status is a choice; every other
\* column is read-only and dropped; offer_detail_id must name a row
OrderPatchValid(data) ==
    /\ "status" \in DOMAIN data => data.status \in OrderStatus
    /\ "offer_detail_id" \in DOMAIN data => PkOf(data.offer_detail_id) \in DOMAIN details

\* validated_data of a PATCH: the writable fields the request carries
OrderValidated(data) == DOMAIN data \cap {"status", "offer_detail_id"}

\* an update that also resets the price
OrderUpdateWithPrice(order, data) ==
    [order EXCEPT !.status = data.status, !.price = "0"]

\* OrderSerializer.update
OrderUpdate(order, data) == [order EXCEPT !.status = data.status]

\* PATCH /orders/{pk}/
OrderPatch(u, pk, data) ==
    /\ UNCHANGED <<users, authVars, reviewVars, offers, details, nextOffer, nextDetail, nextOrder>>
    /\ IF pk \notin DOMAIN orders
       THEN /\ Respond("order_patch", u, pk, data, 404, 0)
            /\ UNCHANGED orders
       ELSE IF ~OrderPatchAllowed(u, orders[pk])
       THEN /\ Respond("order_patch", u, pk, data, 403, 0)
            /\ UNCHANGED orders
       ELSE IF ~OrderPatchValid(data) \/ OrderValidated(data) # {"status"}
       THEN /\ Respond("order_patch", u, pk, data, 400, 0)
            /\ UNCHANGED orders
       ELSE /\ orders' = [orders EXCEPT ![pk] = OrderUpdate(@, data)]
            /\ Respond("order_patch", u, pk, data, 200, 0)

\* OrderDeleteAllowed without the staff test
OrderDeleteAnyone(u) == u \in DOMAIN users

\* the guard of OrdersView.delete
OrderDeleteAllowed(u) == users[u].is_staff

\* order.delete(): the keys that leave the table
OrderDeleted(pk) == {pk}

\* DELETE /orders/{pk}/
OrderDelete(u, pk) ==
    /\ UNCHANGED <<users, authVars, reviewVars, offers, details, nextOffer, nextDetail, nextOrder>>
    /\ IF pk \notin DOMAIN orders
       THEN /\ Respond("order_delete", u, pk, <<>>, 404, 0)
            /\ UNCHANGED orders
       ELSE IF ~OrderDeleteAllowed(u)
       THEN /\ Respond("order_delete", u, pk, <<>>, 403, 0)
            /\ UNCHANGED orders
       ELSE /\ orders' = Restrict(orders, DOMAIN orders \ OrderDeleted(pk))
            /\ Respond("order_delete", u, pk, <<>>, 204, 0)

\* the queryset OrderCountView counts
OrderCountQuery(pk) ==
    {i \in DOMAIN orders : orders[i].business_user = pk /\ orders[i].status # "completed"}

\* GET /order-count/{pk}/
OrderCount(u, pk) ==
    /\ UNCHANGED <<users, authVars, reviewVars, offers, details, orders, nextOffer, nextDetail, nextOrder>>
    /\ IF pk \notin DOMAIN users
       THEN Respond("order_count", u, pk, <<>>, 404, 0)
       ELSE Respond("order_count", u, pk, <<>>, 200, Cardinality(OrderCountQuery(pk)))

\* --------------------------------------------------- the whole API
PostBodies == {[title |-> "Offer", details |-> DetailList(3)]}

PatchBodies == {[title |-> "Offer v2", details |-> <<Basic2>>]}

DetailKeys == 1..(3 * MaxOffers + 1)

OrderPostBodies ==
    {[offer_detail_id |-> [int |-> n]] : n \in DetailKeys}
    \cup {<<>>, [offer_detail_id |-> [str |-> "1"]], [offer_detail_id |-> [str |-> "abc"]],
          [offer_detail_id |-> [int |-> 1], status |-> "completed"]}

OrderPatchBodies ==
    {[status |-> s] : s \in {"completed", "cancelled", "done"}}
    \cup {<<>>, [status |-> "completed", offer_detail_id |-> [int |-> 1]]}

OrderKeys == 1..MaxOrders

Next ==
    \/ \E u \in Users, data \in PostBodies : OfferPost(u, data)
    \/ \E u \in Users, pk \in OfferKeys, data \in PatchBodies : OfferPatch(u, pk, data)
    \/ \E u \in Users, pk \in OfferKeys : OfferDelete(u, pk)
    \/ \E u \in Users, data \in OrderPostBodies : OrderPost(u, data)
    \/ \E u \in Users, pk \in OrderKeys, data \in OrderPatchBodies : OrderPatch(u, pk, data)
    \/ \E u \in Users, pk \in OrderKeys : OrderDelete(u, pk)
    \/ \E u \in Users, pk \in 1..(Cardinality(Users) + 1) : OrderCount(u, pk)

Spec == Init /\ [][Next]_vars

\* --------------------------- offers and the orders taken from them
IntKeys == {[offer_detail_id |-> [int |-> n]] : n \in DetailKeys}

NextSnapshot ==
    \/ \E u \in Users, data \in PostBodies : OfferPost(u, data)
    \/ \E u \in Users, pk \in OfferKeys, data \in PatchBodies : OfferPatch(u, pk, data)
    \/ \E u \in Users, pk \in OfferKeys : OfferDelete(u, pk)
    \/ \E u \in Users, data \in IntKeys : OrderPost(u, data)

SpecSnapshot == Init /\ [][NextSnapshot]_vars

\* ------------------------------------ orders and who may touch them
\* a valid status, a value outside the choices, and no status at all
AccessPatchBodies == {[status |-> "completed"], [status |-> "done"], <<>>}

NextOrderAccess ==
    \/ \E u \in Users, data \in PostBodies : OfferPost(u, data)
    \/ \E u \in Users, data \in IntKeys : OrderPost(u, data)
    \/ \E u \in Users, pk \in OrderKeys, data \in AccessPatchBodies : OrderPatch(u, pk, data)
    \/ \E u \in Users, pk \in OrderKeys : OrderDelete(u, pk)

SpecOrderAccess == Init /\ [][NextOrderAccess]_vars

\* ------------------------------------------------- orders: the list
\* every order, whoever asks
AllOrders(u) == DOMAIN orders

\* the queryset of OrdersView.get for requester u
OrdersQuery(u) ==
    IF users[u].type = "customer"
    THEN {o \in DOMAIN orders : orders[o].customer_user = u}
    ELSE IF users[u].type = "business"
    THEN {o \in DOMAIN orders : orders[o].business_user = u}
    ELSE {}

\* GET /orders/ (the answer lists the keys of the returned orders)
OrdersGet(u) ==
    /\ UNCHANGED <<users, authVars, reviewVars, offers, details, orders,
                   nextOffer, nextDetail, nextOrder>>
    /\ Respond("orders_get", u, 0, <<>>, 200, OrdersQuery(u))

\* ------------------------------------------------------------ accounts
MaxUsers == 4

MinPasswordLength == 8

UserTypes == {"business", "customer"}

\* RegistrationSerializer.is_valid: username, password, repeated_password and
\* type are required (email is blank=True on the model, hence optional);
\* username carries the model's UniqueValidator, password min_length, type
\* the model's choices
RegistrationSerializer(data) ==
    /\ {"username", "password", "repeated_password", "type"} \subseteq DOMAIN data
    /\ \A u \in DOMAIN users : users[u].username # data.username
    /\ Len(data.password) >= MinPasswordLength
    /\ data.type \in UserTypes

\* RegistrationRefused without the comparison of the two passwords
RegistrationRefusedNoRepeat(data) ==
    \/ \E u \in DOMAIN users : users[u].email = data.email
    \/ \E u \in DOMAIN users : users[u].username = data.username
    \/ data.type \notin {"business", "customer"}

\* the checks of RegistrationSerializer.save that raise ValidationError
RegistrationRefused(data) ==
    \/ \E u \in DOMAIN users : users[u].email = data.email
    \/ \E u \in DOMAIN users : users[u].username = data.username
    \/ data.password # data.repeated_password
    \/ data.type \notin {"business", "customer"}

\* POST /registration/ (AllowAny: there is no requester, written 0)
Registration(data) ==
    /\ nextUser <= MaxUsers
    /\ UNCHANGED <<offers, details, orders, nextOffer, nextDetail, nextOrder, reviewVars>>
    /\ IF ~RegistrationSerializer(data)
       THEN /\ Respond("registration", 0, 0, data, 400, 0)
            /\ UNCHANGED <<users, nextUser, tokens>>
       ELSE IF "email" \notin DOMAIN data
       THEN \* self.validated_data['email'] raises KeyError
            /\ Respond("registration", 0, 0, data, 500, 0)
            /\ UNCHANGED <<users, nextUser, tokens>>
       ELSE IF RegistrationRefused(data)
       THEN /\ Respond("registration", 0, 0, data, 400, 0)
            /\ UNCHANGED <<users, nextUser, tokens>>
       ELSE /\ users' = (nextUser :> UserProfile(data.username, data.email, data.type,
                                                 FALSE, FALSE)) @@ users
            /\ nextUser' = nextUser + 1
            /\ tokens' = tokens \cup {nextUser}
            /\ Respond("registration", 0, 0, data, 201, nextUser)

\* has_object_permission that stops at the authentication test
IsAuthenticatedProfile(u, pk) == u \in DOMAIN users

\* IsAdminOrOwnerOrReadOnly.has_object_permission for PUT/PATCH/DELETE on
\* profile pk
IsAdminOrOwnerOrReadOnly(u, pk) ==
    users[u].is_staff \/ users[u].is_superuser \/ pk = u

\* the columns of UserProfileSerializer the model keeps
ProfileColumns == {"username", "email", "type"}

\* UserProfileSerializer.is_valid(partial=True) on profile pk: username stays
\* unique among the other accounts, type is a choice; email has no validator
\* beyond its format
UserProfileSerializer(pk, data) ==
    /\ "username" \in DOMAIN data
          => \A u \in DOMAIN users \ {pk} : users[u].username # data.username
    /\ "type" \in DOMAIN data => data.type \in UserTypes

\* serializer.save(): the sent columns overwrite the row's
ProfileUpdate(row, data) ==
    [c \in DOMAIN row |-> IF c \in ProfileColumns \cap DOMAIN data THEN data[c] ELSE row[c]]

\* PATCH /profile/{pk}/
ProfilePatch(u, pk, data) ==
    /\ UNCHANGED <<offers, details, orders, nextOffer, nextDetail, nextOrder,
                   authVars, reviewVars>>
    /\ IF pk \notin DOMAIN users
       THEN /\ Respond("profile_patch", u, pk, data, 404, 0)
            /\ UNCHANGED users
       ELSE IF ~IsAdminOrOwnerOrReadOnly(u, pk)
       THEN /\ Respond("profile_patch", u, pk, data, 403, 0)
            /\ UNCHANGED users
       ELSE IF ~UserProfileSerializer(pk, data)
       THEN /\ Respond("profile_patch", u, pk, data, 400, 0)
            /\ UNCHANGED users
       ELSE /\ users' = [users EXCEPT ![pk] = ProfileUpdate(@, data)]
            /\ Respond("profile_patch", u, pk, data, 200, 0)

\* the fields UserProfileSerializer requires when the update is not partial:
\* username, and type (a column with neither blank nor default)
ProfileRequired == {"username", "type"}

\* PUT /profile/{pk}/
ProfilePut(u, pk, data) ==
    /\ UNCHANGED <<offers, details, orders, nextOffer, nextDetail, nextOrder,
                   authVars, reviewVars>>
    /\ IF pk \notin DOMAIN users
       THEN /\ Respond("profile_put", u, pk, data, 404, 0)
            /\ UNCHANGED users
       ELSE IF ~IsAdminOrOwnerOrReadOnly(u, pk)
       THEN /\ Respond("profile_put", u, pk, data, 403, 0)
            /\ UNCHANGED users
       ELSE IF ~(ProfileRequired \subseteq DOMAIN data /\ UserProfileSerializer(pk, data))
       THEN /\ Respond("profile_put", u, pk, data, 400, 0)
            /\ UNCHANGED users
       ELSE /\ users' = [users EXCEPT ![pk] = ProfileUpdate(@, data)]
            /\ Respond("profile_put", u, pk, data, 200, 0)

\* the offers on_delete=CASCADE removes with account pk
OffersOfUser(pk) == {o \in DOMAIN offers : offers[o].user = pk}

\* DELETE /profile/{pk}/: the account goes, and with it its token, its
\* offers and their details, the orders it is a party of, the reviews it
\* wrote or received
ProfileDelete(u, pk) ==
    /\ UNCHANGED <<nextOffer, nextDetail, nextOrder, nextUser, nextReview, inflight>>
    /\ IF pk \notin DOMAIN users
       THEN /\ Respond("profile_delete", u, pk, <<>>, 404, 0)
            /\ UNCHANGED <<users, tokens, offers, details, orders, reviews>>
       ELSE IF ~IsAdminOrOwnerOrReadOnly(u, pk)
       THEN /\ Respond("profile_delete", u, pk, <<>>, 403, 0)
            /\ UNCHANGED <<users, tokens, offers, details, orders, reviews>>
       ELSE /\ users' = Restrict(users, DOMAIN users \ {pk})
            /\ tokens' = tokens \ {pk}
            /\ offers' = Restrict(offers, DOMAIN offers \ OffersOfUser(pk))
            /\ details' = Restrict(details,
                   {d \in DOMAIN details : details[d].offer \notin OffersOfUser(pk)})
            /\ orders' = Restrict(orders,
                   {o \in DOMAIN orders : pk \notin {orders[o].customer_user,
                                                     orders[o].business_user}})
            /\ reviews' = Restrict(reviews,
                   {r \in DOMAIN reviews : pk \notin {reviews[r].reviewer,
                                                      reviews[r].business_user}})
            /\ Respond("profile_delete", u, pk, <<>>, 204, 0)

\* ------------------------------------------------------------ reviews
MaxReviews == 2

\* in place of an answer code: no check answered, the handler goes on
Continue == 0

\* validate_rating that only rejects values below 1
RatingAtLeastOne(value) == ~(value < 1)

\* ReviewCreateSerializer.validate_rating
ValidateRating(value) == ~(value < 1 \/ value > 5)

\* Review.objects.filter(business_user__id=request.data.get('business_user'),
\* reviewer__id=request.user.id)
ReviewsOfPair(u, data) ==
    IF "business_user" \in DOMAIN data
    THEN {r \in DOMAIN reviews :
             reviews[r].business_user = data.business_user /\ reviews[r].reviewer = u}
    ELSE {}

\* the checks ReviewsView.post makes before it validates the body: the
\* duplicate query (.get raises on several rows), the requester's type,
\* the target's type
ReviewPostChecks(u, data) ==
    IF Cardinality(ReviewsOfPair(u, data)) > 1 THEN 500
    ELSE IF ReviewsOfPair(u, data) # {} THEN 403
    ELSE IF users[u].type # "customer" THEN 403
    ELSE IF /\ "business_user" \in DOMAIN data
            /\ data.business_user \in DOMAIN users
            /\ users[data.business_user].type # "business" THEN 400
    ELSE Continue

\* ReviewCreateSerializer.is_valid: business_user must name an account,
\* rating passes validate_rating, description (a TextField without blank)
\* is not empty; with partial only the sent fields are looked at
ReviewCreateSerializer(data, partial) ==
    /\ ~partial => {"business_user", "rating", "description"} \subseteq DOMAIN data
    /\ "business_user" \in DOMAIN data => data.business_user \in DOMAIN users
    /\ "rating" \in DOMAIN data => ValidateRating(data.rating)
    /\ "description" \in DOMAIN data => data.description # ""

\* ReviewCreateSerializer.create: the reviewer is the requester
Review(u, validated_data) ==
    [business_user |-> validated_data.business_user,
     reviewer |-> u,
     rating |-> validated_data.rating,
     description |-> validated_data.description]

\* ModelSerializer.update: reviewer is read-only, the sent fields overwrite
ReviewUpdated(review, data) ==
    [c \in DOMAIN review |->
        IF c \in {"business_user", "rating", "description"} \cap DOMAIN data
        THEN data[c] ELSE review[c]]

\* POST /reviews/ run from start to end
ReviewPost(u, data) ==
    /\ nextReview <= MaxReviews
    /\ UNCHANGED <<users, authVars, offers, details, orders, nextOffer, nextDetail,
                   nextOrder, inflight>>
    /\ IF ReviewPostChecks(u, data) # Continue
       THEN /\ Respond("review_post", u, 0, data, ReviewPostChecks(u, data), 0)
            /\ UNCHANGED <<reviews, nextReview>>
       ELSE IF ~ReviewCreateSerializer(data, FALSE)
       THEN /\ Respond("review_post", u, 0, data, 400, 0)
            /\ UNCHANGED <<reviews, nextReview>>
       ELSE /\ reviews' = (nextReview :> Review(u, data)) @@ reviews
            /\ nextReview' = nextReview + 1
            /\ Respond("review_post", u, 0, data, 201, nextReview)

\* no owner test: any account may write
ReviewWriteAnyone(u, review) == u \in DOMAIN users

\* who ReviewDetailView lets edit or delete a review
ReviewWriteAllowed(u, review) == u = review.reviewer \/ users[u].is_superuser

\* PUT (partial FALSE) and PATCH (partial TRUE) /reviews/{pk}/
ReviewUpdate(u, pk, data, partial) ==
    /\ UNCHANGED <<users, authVars, offers, details, orders, nextOffer, nextDetail,
                   nextOrder, nextReview, inflight>>
    /\ LET op == IF partial THEN "review_patch" ELSE "review_put" IN
       IF pk \notin DOMAIN reviews
       THEN /\ Respond(op, u, pk, data, 404, 0)
            /\ UNCHANGED reviews
       ELSE IF ~ReviewWriteAllowed(u, reviews[pk])
       THEN /\ Respond(op, u, pk, data, 403, 0)
            /\ UNCHANGED reviews
       ELSE IF ~ReviewCreateSerializer(data, partial)
       THEN /\ Respond(op, u, pk, data, 400, 0)
            /\ UNCHANGED reviews
       ELSE /\ reviews' = [reviews EXCEPT ![pk] = ReviewUpdated(@, data)]
            /\ Respond(op, u, pk, data, 200, 0)

\* DELETE /reviews/{pk}/
ReviewDelete(u, pk) ==
    /\ UNCHANGED <<users, authVars, offers, details, orders, nextOffer, nextDetail,
                   nextOrder, nextReview, inflight>>
    /\ IF pk \notin DOMAIN reviews
       THEN /\ Respond("review_delete", u, pk, <<>>, 404, 0)
            /\ UNCHANGED reviews
       ELSE IF ~ReviewWriteAllowed(u, reviews[pk])
       THEN /\ Respond("review_delete", u, pk, <<>>, 403, 0)
            /\ UNCHANGED reviews
       ELSE /\ reviews' = Restrict(reviews, DOMAIN reviews \ {pk})
            /\ Respond("review_delete", u, pk, <<>>, 204, 0)

\* ---------------------------------------------- specifications: lists
\* a registration body
RegistrationData(username, email, password, repeated_password, t) ==
    [username |-> username, email |-> email, password |-> password,
     repeated_password |-> repeated_password, type |-> t]

\* a second customer and a second plain business user sign up
NewcomerBodies ==
    {RegistrationData("dora", "dora@x.de", "secret-pw1", "secret-pw1", "customer"),
     RegistrationData("ben", "ben@x.de", "secret-pw2", "secret-pw2", "business")}

NextOrderList ==
    \/ \E data \in NewcomerBodies : Registration(data)
    \/ \E u \in Users, data \in PostBodies : OfferPost(u, data)
    \/ \E u \in Users, data \in IntKeys : OrderPost(u, data)
    \/ \E u \in Users : OrdersGet(u)

SpecOrderList == Init /\ [][NextOrderList]_vars

\* -------------------------------------------- specifications: reviews
\* targets: every account and one key no account has
ReviewTargets == DOMAIN users \cup {nextUser}

ReviewData(b, r, d) == [business_user |-> b, rating |-> r, description |-> d]

\* ratings below, inside and above the allowed range
Ratings == {0, 1, 5, 6}

\* every target with a valid rating, one target with every rating, a body
\* without a target and one without a description
ReviewPostBodies ==
    {ReviewData(b, 5, "good") : b \in ReviewTargets}
    \cup {ReviewData(2, r, "good") : r \in Ratings}
    \cup {[rating |-> 5, description |-> "good"], [business_user |-> 2, rating |-> 5]}

ReviewPatchBodies ==
    {[rating |-> r] : r \in Ratings} \cup {[business_user |-> b] : b \in ReviewTargets}

ReviewPutBodies == {ReviewData(2, r, "good") : r \in {1, 6}} \cup {[rating |-> 5]}

ReviewKeys == 1..MaxReviews

NextReviews ==
    \/ \E u \in Users, data \in ReviewPostBodies : ReviewPost(u, data)
    \/ \E u \in Users, pk \in ReviewKeys, data \in ReviewPatchBodies :
          ReviewUpdate(u, pk, data, TRUE)
    \/ \E u \in Users, pk \in ReviewKeys, data \in ReviewPutBodies :
          ReviewUpdate(u, pk, data, FALSE)
    \/ \E u \in Users, pk \in ReviewKeys : ReviewDelete(u, pk)

SpecReviews == Init /\ [][NextReviews]_vars

\* ----------------------------------- reviews: requests running at once
MaxCalls == 2

\* the worker threads serving requests
Calls == 1..MaxCalls

\* first half of POST /reviews/ in worker c: the queries and checks before
\* serializer.is_valid(); a request that passes them is held in inflight
ReviewPostStart(c, u, data) ==
    /\ c \notin DOMAIN inflight
    /\ nextReview + Cardinality(DOMAIN inflight) <= MaxReviews
    /\ UNCHANGED <<users, authVars, offers, details, orders, nextOffer, nextDetail,
                   nextOrder, reviews, nextReview>>
    /\ IF ReviewPostChecks(u, data) # Continue
       THEN /\ Respond("review_post", u, 0, data, ReviewPostChecks(u, data), 0)
            /\ UNCHANGED inflight
       ELSE /\ inflight' = (c :> [user |-> u, data |-> data]) @@ inflight
            /\ UNCHANGED resp

\* second half in worker c: serializer.is_valid(), serializer.save(), answer
ReviewPostFinish(c) ==
    /\ c \in DOMAIN inflight
    /\ UNCHANGED <<users, authVars, offers, details, orders, nextOffer, nextDetail,
                   nextOrder>>
    /\ inflight' = Restrict(inflight, DOMAIN inflight \ {c})
    /\ LET u == inflight[c].user
           data == inflight[c].data IN
       IF ~ReviewCreateSerializer(data, FALSE)
       THEN /\ Respond("review_post", u, 0, data, 400, 0)
            /\ UNCHANGED <<reviews, nextReview>>
       ELSE /\ reviews' = (nextReview :> Review(u, data)) @@ reviews
            /\ nextReview' = nextReview + 1
            /\ Respond("review_post", u, 0, data, 201, nextReview)

NextReviewRace ==
    \/ \E c \in Calls, u \in Users, data \in ReviewPostBodies : ReviewPostStart(c, u, data)
    \/ \E c \in Calls : ReviewPostFinish(c)

SpecReviewRace == Init /\ [][NextReviewRace]_vars

\* ------------------------- specifications: accounts and offer owners
UserKeys == 1..MaxUsers

\* a switch of type either way, and a value outside the choices
TypeBodies == {[type |-> "customer"], [type |-> "business"], [type |-> "admin"]}

NextOwners ==
    \/ \E data \in NewcomerBodies : Registration(data)
    \/ \E u \in Users, pk \in UserKeys, data \in TypeBodies : ProfilePatch(u, pk, data)
    \/ \E u \in Users, data \in PostBodies : OfferPost(u, data)
    \/ \E u \in Users, pk \in OfferKeys, data \in PatchBodies : OfferPatch(u, pk, data)
    \/ \E u \in Users, pk \in OfferKeys : OfferDelete(u, pk)

SpecOwners == Init /\ [][NextOwners]_vars

\* ------------------------------------- specifications: registration
\* sign-ups that pass, and one for each way of being turned away: repeated
\* password differs, email taken, username taken, type outside the choices,
\* password too short, no repeated_password, no email
RegistrationBodies ==
    NewcomerBodies
    \cup {RegistrationData("erin", "erin@x.de", "secret-pw3", "secret-pw4", "customer"),
          RegistrationData("erin", "carl@x.de", "secret-pw3", "secret-pw3", "customer"),
          RegistrationData("carl", "erin@x.de", "secret-pw3", "secret-pw3", "business"),
          RegistrationData("erin", "erin@x.de", "secret-pw3", "secret-pw3", "admin"),
          RegistrationData("erin", "erin@x.de", "short", "short", "customer"),
          [username |-> "erin", email |-> "erin@x.de", password |-> "secret-pw3",
           type |-> "customer"],
          [username |-> "erin", password |-> "secret-pw3",
           repeated_password |-> "secret-pw3", type |-> "customer"]}

\* an account moves to an email or a username a later sign-up asks for
ContactBodies == {[email |-> "dora@x.de"], [username |-> "ben"]}

NextRegistration ==
    \/ \E data \in RegistrationBodies : Registration(data)
    \/ \E u \in Users, pk \in UserKeys, data \in ContactBodies : ProfilePatch(u, pk, data)

SpecRegistration == Init /\ [][NextRegistration]_vars

\* ------------------------------------- specifications: profiles
\* full bodies for PUT, and one without the required type
ProfilePutBodies == {[username |-> "carl2", type |-> "customer"], [username |-> "carl2"]}

\* a switch of type, and a value outside the choices
ProfilePatchBodies == {[type |-> "business"], [type |-> "admin"]}

NextProfiles ==
    \/ \E u \in Users, data \in PostBodies : OfferPost(u, data)
    \/ \E u \in Users, pk \in UserKeys, data \in ProfilePatchBodies : ProfilePatch(u, pk, data)
    \/ \E u \in Users, pk \in UserKeys, data \in ProfilePutBodies : ProfilePut(u, pk, data)
    \/ \E u \in Users, pk \in UserKeys : ProfileDelete(u, pk)

SpecProfiles == Init /\ [][NextProfiles]_vars

\* ------------------------- specifications: two offers side by side
\* one offer more than elsewhere, so that a write to one offer has another
\* offer beside it
TwoOfferKeys == 1..(MaxOffers + 1)

TwoOfferDetailKeys == {[offer_detail_id |-> [int |-> n]] : n \in 1..(3 * (MaxOffers + 1))}

\* the customer, and the business user who is neither staff nor superuser
Plain == {u \in Users : ~users[u].is_staff}

NextOfferDelete ==
    \/ \E u \in Plain, data \in PostBodies : OfferPostUpTo(u, data, MaxOffers + 1)
    \/ \E u \in Plain, data \in TwoOfferDetailKeys : OrderPost(u, data)
    \/ \E u \in Users, pk \in TwoOfferKeys : OfferDelete(u, pk)

SpecOfferDelete == Init /\ [][NextOfferDelete]_vars

\* three tiers, and a list whose first two entries carry the same tier tag
TwoOfferPostBodies == PostBodies \cup {[title |-> "Offer", details |-> <<Basic, Basic, Premium>>]}

\* one tier, two tiers, and a tier named twice
TierPatchBodies ==
    {[title |-> "Offer v2", details |-> dd] :
        dd \in {<<Basic2>>, <<Basic2, Standard2>>, <<Premium, Premium>>}}

NextOfferPatch ==
    \/ \E u \in Plain, data \in TwoOfferPostBodies : OfferPostUpTo(u, data, MaxOffers + 1)
    \/ \E u \in Plain, pk \in TwoOfferKeys, data \in TierPatchBodies : OfferPatch(u, pk, data)

SpecOfferPatch == Init /\ [][NextOfferPatch]_vars

\* --------------------- orders and offer updates running at once
\* the calls of one kind that are under way
CallsOf(op) == {c \in DOMAIN inflight : inflight[c].op = op}

Finished(c) == Restrict(inflight, DOMAIN inflight \ {c})

\* first half of POST /orders/ in worker c: the checks of the view and
\* serializer.is_valid(), whose PrimaryKeyRelatedField loads the row with
\* one query; the loaded instance is held in memory
OrderPostStart(c, u, data) ==
    /\ c \notin DOMAIN inflight
    /\ nextOrder + Cardinality(CallsOf("order_post")) <= MaxOrders
    /\ UNCHANGED <<users, authVars, reviews, nextReview, offers, details, orders,
                   nextOffer, nextDetail, nextOrder>>
    /\ IF "offer_detail_id" \notin DOMAIN data
          \/ (IsStr(data.offer_detail_id) /\ ~Numeric(data.offer_detail_id.str))
          \/ PkOf(data.offer_detail_id) \notin DOMAIN details
          \/ ~OrderValidate(data)
       THEN /\ Respond("order_post", u, 0, data, 400, 0)
            /\ UNCHANGED inflight
       ELSE IF OrderPostForbidden(u)
       THEN /\ Respond("order_post", u, PkOf(data.offer_detail_id), data, 403, 0)
            /\ UNCHANGED inflight
       ELSE /\ inflight' = (c :> [op |-> "order_post", user |-> u, data |-> data,
                                  pk |-> PkOf(data.offer_detail_id),
                                  row |-> details[PkOf(data.offer_detail_id)]]) @@ inflight
            /\ UNCHANGED resp

\* a create that reads the price from the table again instead of from the
\* loaded instance
RefetchedPrice(c) ==
    [inflight[c].row EXCEPT !.price =
        IF inflight[c].pk \in DOMAIN details THEN details[inflight[c].pk].price ELSE @]

\* the OfferDetails instance OrderSerializer.create copies from
LoadedRow(c) == inflight[c].row

\* second half in worker c: OrderSerializer.create and the answer
OrderPostFinish(c) ==
    /\ c \in CallsOf("order_post")
    /\ LoadedRow(c).offer \in DOMAIN offers
    /\ UNCHANGED <<users, authVars, reviews, nextReview, offers, details,
                   nextOffer, nextDetail>>
    /\ inflight' = Finished(c)
    /\ LET u == inflight[c].user
           order == Order(u, LoadedRow(c)) IN
       IF ~OrderSaves(order)
       THEN /\ Respond("order_post", u, inflight[c].pk, inflight[c].data, 500, 0)
            /\ UNCHANGED <<orders, nextOrder>>
       ELSE /\ orders' = (nextOrder :> order) @@ orders
            /\ nextOrder' = nextOrder + 1
            /\ Respond("order_post", u, inflight[c].pk, inflight[c].data, 201, nextOrder)

\* PATCH /offers/{pk}/ in worker c up to the details loop: lookup,
\* permission, is_valid and the save of the offer's own columns
OfferPatchStart(c, u, pk, data) ==
    /\ c \notin DOMAIN inflight
    /\ UNCHANGED <<users, authVars, reviews, nextReview, details, orders,
                   nextOffer, nextDetail, nextOrder>>
    /\ IF pk \notin DOMAIN offers
       THEN /\ Respond("offer_patch", u, pk, data, 404, 0)
            /\ UNCHANGED <<offers, inflight>>
       ELSE IF ~IsOwnerOrAdminOrReadOnly(u, offers[pk])
       THEN /\ Respond("offer_patch", u, pk, data, 403, 0)
            /\ UNCHANGED <<offers, inflight>>
       ELSE IF ~OfferUpdateSerializer(data)
       THEN /\ Respond("offer_patch", u, pk, data, 400, 0)
            /\ UNCHANGED <<offers, inflight>>
       ELSE /\ offers' = [offers EXCEPT ![pk] = UpdateOffer(@, data)]
            /\ inflight' = (c :> [op |-> "offer_patch", user |-> u, data |-> data,
                                  pk |-> pk, i |-> 1, key |-> 0, row |-> <<>>]) @@ inflight
            /\ UNCHANGED resp

\* the loop in worker c fetches the row of its next entry (one query) and
\* assigns the entry's columns to the instance in memory; the loop ends
\* with the answer when no entry is left or the fetch raises
OfferPatchLoad(c) ==
    /\ c \in CallsOf("offer_patch") /\ inflight[c].key = 0
    /\ UNCHANGED <<users, authVars, reviews, nextReview, offers, details, orders,
                   nextOffer, nextDetail, nextOrder>>
    /\ LET call == inflight[c]
           details_data == GetOr(call.data, "details", <<>>)
           answer(status) ==
               /\ Respond("offer_patch", call.user, call.pk, call.data, status, 0)
               /\ inflight' = Finished(c)
       IN IF call.i > Len(details_data) THEN answer(200)
          ELSE LET m == DetailsGet(details, call.pk, details_data[call.i].offer_type) IN
               IF m = {} THEN answer(400)
               ELSE IF Cardinality(m) > 1 THEN answer(500)
               ELSE LET k == CHOOSE x \in m : TRUE IN
                    /\ inflight' = [inflight EXCEPT
                           ![c].key = k,
                           ![c].row = UpdateDetail(details[k], details_data[call.i])]
                    /\ UNCHANGED resp

\* detail_instance.save() in worker c: one UPDATE writes the whole row
OfferPatchSave(c) ==
    /\ c \in CallsOf("offer_patch") /\ inflight[c].key # 0
    /\ UNCHANGED <<users, authVars, reviews, nextReview, offers, orders,
                   nextOffer, nextDetail, nextOrder>>
    /\ LET call == inflight[c] IN
       IF ~DetailSaves(call.row) \/ call.key \notin DOMAIN details
       THEN /\ Respond("offer_patch", call.user, call.pk, call.data, 500, 0)
            /\ inflight' = Finished(c)
            /\ UNCHANGED details
       ELSE /\ details' = [details EXCEPT ![call.key] = call.row]
            /\ inflight' = [inflight EXCEPT ![c].key = 0, ![c].i = @ + 1]
            /\ UNCHANGED resp

\* the requesters of the race: customers order, business users rewrite
Customers == {u \in Users : users[u].type = "customer"}

\* orders of the row the rewrite is about: the first row of each offer
BasicKeys == {[offer_detail_id |-> [int |-> 3 * (o - 1) + 1]] : o \in OfferKeys}

NextSnapshotRace ==
    \/ \E u \in Plain \ Customers, data \in PostBodies : OfferPost(u, data)
    \/ \E c \in Calls, u \in Customers, data \in BasicKeys : OrderPostStart(c, u, data)
    \/ \E c \in Calls : OrderPostFinish(c)
    \/ \E c \in Calls, u \in Plain \ Customers, pk \in OfferKeys, data \in PatchBodies :
          OfferPatchStart(c, u, pk, data)
    \/ \E c \in Calls : OfferPatchLoad(c)
    \/ \E c \in Calls : OfferPatchSave(c)

SpecSnapshotRace == Init /\ [][NextSnapshotRace]_vars

\* ================================================================ claims
CopiedColumns == {"title", "revisions", "delivery_time_in_days", "price", "features", "offer_type"}

\* C1: every stored Offer has exactly 3 OfferDetails rows.
C1_ExactlyThreeDetails ==
    \A o \in DOMAIN offers : Cardinality(DetailsOf(details, o)) = 3

\* C2: a permitted user's POST /offers/ carrying a details list is answered
\* 400 when the list does not hold exactly 3 entries, and 201 only when it
\* holds exactly 3.
C2_CreateNeedsThree ==
    (resp.op = "offer_post" /\ IsBusinessUser(resp.user) /\ "details" \in DOMAIN resp.data)
    => /\ Len(resp.data.details) # 3 => resp.status = 400
       /\ resp.status = 201 => Len(resp.data.details) = 3

\* C3: the OfferDetails rows of one offer carry pairwise distinct offer_type
\* tags, so a lookup by (offer, offer_type) matches at most one row.
C3_TierTagsDistinct ==
    /\ \A i, j \in DOMAIN details :
          (i # j /\ details[i].offer = details[j].offer)
          => details[i].offer_type # details[j].offer_type
    /\ \A o \in DOMAIN offers, t \in OfferTypes :
          Cardinality(DetailsGet(details, o, t)) <= 1

\* C4: the order a POST /orders/ has just created equals the referenced
\* OfferDetails row column by column, is in_progress, has the requester as
\* customer_user and the owner of the row's offer as business_user.
C4_OrderIsSnapshot ==
    (resp.op = "order_post" /\ resp.status = 201)
    => /\ resp.out \in DOMAIN orders /\ resp.pk \in DOMAIN details
       /\ \A c \in CopiedColumns : orders[resp.out][c] = details[resp.pk][c]
       /\ orders[resp.out].status = "in_progress"
       /\ orders[resp.out].customer_user = resp.user
       /\ orders[resp.out].business_user = offers[details[resp.pk].offer].user

\* C4 witness: an order has just been taken from a tier a PATCH had rewritten
C4_Witness ==
    /\ resp.op = "order_post" /\ resp.status = 201
    /\ details[resp.pk].title = "Basic v2"
    /\ orders[resp.out].price = "150"

\* C5: a PATCH or DELETE of an offer leaves every existing order in place
\* with all of its columns as they were.
C5_OrdersSurviveOfferWrites ==
    [][resp'.op \in {"offer_patch", "offer_delete"}
       => \A o \in DOMAIN orders : o \in DOMAIN orders' /\ orders'[o] = orders[o]]_vars

\* C5 witness: the offer is gone (after its basic tier had been rewritten)
\* while an order copied from the first version of that tier is still stored
C5_Witness ==
    /\ resp.op = "offer_delete" /\ resp.status = 204
    /\ details = <<>>
    /\ \E o \in DOMAIN orders : orders[o].title = "Basic" /\ orders[o].price = "100"

\* C6: a PATCH /orders/{id}/ on an existing order by anyone who is not a
\* business user and that order's business_user is answered 403 and leaves
\* the orders unchanged; so an order changes only for its own business user.
C6_OnlyOwningBusinessPatches ==
    [][(resp'.op = "order_patch" /\ resp'.pk \in DOMAIN orders)
       => \/ /\ users[resp'.user].type = "business"
             /\ orders[resp'.pk].business_user = resp'.user
          \/ /\ resp'.status = 403
             /\ orders' = orders]_vars

\* C6 witness: an order its own business user had completed, and a PATCH of
\* it by another business account (a staff one) has just been refused
C6_Witness ==
    /\ resp.op = "order_patch" /\ resp.status = 403
    /\ resp.pk \in DOMAIN orders
    /\ orders[resp.pk].status = "completed"
    /\ orders[resp.pk].business_user # resp.user
    /\ users[resp.user].type = "business" /\ users[resp.user].is_staff

\* C7: POST /orders/ by a user whose type is not customer is answered 403,
\* whatever the body holds.
C7_NonCustomerGets403 ==
    (resp.op = "order_post" /\ users[resp.user].type # "customer") => resp.status = 403

\* C8: a customer's POST /orders/ whose offer_detail_id matches no
\* OfferDetails row is answered 404.
C8_UnknownDetailGets404 ==
    (resp.op = "order_post" /\ users[resp.user].type = "customer"
        /\ resp.pk # 0 /\ resp.pk \notin DOMAIN details)
    => resp.status = 404

\* C9: a DELETE /orders/{id}/ on an existing order by a staff user is
\* answered 204 and removes that order and no other; by anyone else it is
\* answered 403 and removes nothing.
C9_OnlyStaffDeletes ==
    [][(resp'.op = "order_delete" /\ resp'.pk \in DOMAIN orders)
       => IF users[resp'.user].is_staff
          THEN /\ resp'.status = 204
               /\ DOMAIN orders' = DOMAIN orders \ {resp'.pk}
               /\ \A o \in DOMAIN orders' : orders'[o] = orders[o]
          ELSE /\ resp'.status = 403
               /\ orders' = orders]_vars

\* C9 witness: a staff delete has removed one order and another is still there
C9_Witness ==
    /\ resp.op = "order_delete" /\ resp.status = 204
    /\ users[resp.user].is_staff
    /\ resp.pk \notin DOMAIN orders
    /\ DOMAIN orders # {}

\* C10: order_count is the number of orders of that business user that are
\* in_progress.
C10_CountsInProgressOnly ==
    (resp.op = "order_count" /\ resp.status = 200)
    => resp.out = Cardinality({o \in DOMAIN orders :
                     orders[o].business_user = resp.pk /\ orders[o].status = "in_progress"})

\* C11: the orders a GET /orders/ returns are, for a customer, exactly the
\* orders whose customer_user is the requester, for a business user exactly
\* those whose business_user is the requester; no answer holds an order in
\* which the requester is neither.
C11_ListIsOwnOrders ==
    resp.op = "orders_get"
    => /\ users[resp.user].type = "customer"
          => resp.out = {o \in DOMAIN orders : orders[o].customer_user = resp.user}
       /\ users[resp.user].type = "business"
          => resp.out = {o \in DOMAIN orders : orders[o].business_user = resp.user}
       /\ \A o \in resp.out :
             /\ o \in DOMAIN orders
             /\ resp.user \in {orders[o].customer_user, orders[o].business_user}

\* C11 witness: a customer's list holds an order of theirs and leaves out an
\* order another customer placed
C11_Witness ==
    /\ resp.op = "orders_get" /\ users[resp.user].type = "customer"
    /\ resp.out # {}
    /\ \E o \in DOMAIN orders : o \notin resp.out /\ orders[o].customer_user # resp.user

\* C12: whatever sequence of review requests (create, PUT/PATCH edit,
\* delete) ran one after the other, no two stored reviews have the same
\* (reviewer, business_user) pair.
C12_PairsUnique ==
    \A i, j \in DOMAIN reviews :
        (reviews[i].reviewer = reviews[j].reviewer
            /\ reviews[i].business_user = reviews[j].business_user)
        => i = j

\* C13: however two POST /reviews/ requests of one customer for one business
\* user interleave, at most one review of that customer for that business
\* user is stored.
C13_AtMostOneStored ==
    \A c \in DOMAIN users, b \in DOMAIN users :
        Cardinality({r \in DOMAIN reviews :
            reviews[r].reviewer = c /\ reviews[r].business_user = b}) <= 1

\* the body names an account of type business
TargetIsBusiness(data) ==
    /\ "business_user" \in DOMAIN data
    /\ data.business_user \in DOMAIN users
    /\ users[data.business_user].type = "business"

\* the step stored exactly one new review, by u about the body's target
StoredOne(u, data) ==
    /\ DOMAIN reviews' = DOMAIN reviews \cup {nextReview} /\ nextReview \notin DOMAIN reviews
    /\ \A r \in DOMAIN reviews : reviews'[r] = reviews[r]
    /\ reviews'[nextReview].reviewer = u
    /\ reviews'[nextReview].business_user = data.business_user

\* C14 as stated: a POST /reviews/ stores a review only when the requester is
\* a customer and the target exists and is a business user; a non-customer
\* is answered 403, a customer naming a non-business or missing target is
\* answered 400, and neither stores anything; a stored review has the
\* requester as reviewer.
C14_AsStated ==
    [][resp'.op = "review_post"
       => /\ reviews' # reviews
             => /\ users[resp'.user].type = "customer" /\ TargetIsBusiness(resp'.data)
                /\ StoredOne(resp'.user, resp'.data)
          /\ users[resp'.user].type # "customer"
             => resp'.status = 403 /\ reviews' = reviews
          /\ (users[resp'.user].type = "customer" /\ ~TargetIsBusiness(resp'.data))
             => resp'.status = 400 /\ reviews' = reviews]_vars

\* C15: a PUT, PATCH or DELETE of /reviews/{id}/ changes or removes the
\* review only when the requester is its reviewer or a superuser; anyone
\* else is answered 403 and the reviews stay as they were; an id no review
\* has is answered 404.
C15_OnlyReviewerOrSuperuserWrites ==
    [][resp'.op \in {"review_put", "review_patch", "review_delete"}
       => IF resp'.pk \notin DOMAIN reviews
          THEN resp'.status = 404 /\ reviews' = reviews
          ELSE IF resp'.user = reviews[resp'.pk].reviewer \/ users[resp'.user].is_superuser
          THEN \A r \in DOMAIN reviews \ {resp'.pk} :
                  r \in DOMAIN reviews' /\ reviews'[r] = reviews[r]
          ELSE resp'.status = 403 /\ reviews' = reviews]_vars

\* C15 witness: an account that is neither the reviewer nor a superuser has
\* been refused the PATCH of a stored review (one of business user 3)
C15_Witness ==
    /\ resp.op = "review_patch" /\ resp.status = 403
    /\ resp.pk \in DOMAIN reviews
    /\ reviews[resp.pk].reviewer # resp.user /\ ~users[resp.user].is_superuser
    /\ reviews[resp.pk].business_user = 3

\* the request reached the validation of its body: a create that passed the
\* checks before it, an edit of an existing review by someone allowed to
RatingLookedAt ==
    IF resp'.op = "review_post" THEN ReviewPostChecks(resp'.user, resp'.data) = Continue
    ELSE resp'.pk \in DOMAIN reviews /\ ReviewWriteAllowed(resp'.user, reviews[resp'.pk])

C17_OnlyOwnerOrSuperuserWrites ==
    [][resp'.op \in {"offer_patch", "offer_delete"}
       => IF resp'.pk \notin DOMAIN offers
          THEN resp'.status = 404 /\ offers' = offers /\ details' = details
          ELSE \/ resp'.user = offers[resp'.pk].user
               \/ users[resp'.user].is_superuser
               \/ /\ resp'.status = 403
                  /\ offers' = offers /\ details' = details]_vars

\* C17 witness: a business user who does not own the offer has been refused
\* the PATCH of an offer that has its three details
C17_Witness ==
    /\ resp.op = "offer_patch" /\ resp.status = 403
    /\ resp.pk \in DOMAIN offers
    /\ users[resp.user].type = "business" /\ offers[resp.pk].user # resp.user
    /\ Cardinality(DetailsOf(details, resp.pk)) = 3

\* C18: a POST /offers/ creates an Offer (and OfferDetails) only when the
\* requester is a business user or a superuser; a customer (who is not a
\* superuser) is answered 403 and neither an Offer nor any OfferDetails row
\* is created; the owner of a created offer is the requester.
C18_OnlyBusinessCreates ==
    [][resp'.op = "offer_post"
       => /\ (offers' # offers \/ details' # details)
             => (users[resp'.user].type = "business" \/ users[resp'.user].is_superuser)
          /\ (users[resp'.user].type = "customer" /\ ~users[resp'.user].is_superuser)
             => (resp'.status = 403 /\ offers' = offers /\ details' = details)
          /\ \A o \in DOMAIN offers' \ DOMAIN offers : offers'[o].user = resp'.user]_vars

\* C18 witness: a customer's POST with a title and three valid details has
\* been answered 403 and the tables are empty
C18_Witness ==
    /\ resp.op = "offer_post" /\ resp.status = 403
    /\ users[resp.user].type = "customer"
    /\ OfferCreateSerializer(resp.data) /\ Len(resp.data.details) = 3
    /\ offers = <<>> /\ details = <<>>

\* C19: through registration, profile edits and offer create, update and
\* delete, the owner of every stored Offer is an account of type business.
C19_OwnersAreBusiness ==
    \A o \in DOMAIN offers :
        offers[o].user \in DOMAIN users /\ users[offers[o].user].type = "business"

\* the field of the body an account already has
Taken(data, column) ==
    column \in DOMAIN data /\ \E u \in DOMAIN users : users[u][column] = data[column]

C21_OnlyOwnerOrStaffWrites ==
    [][(resp'.op \in {"profile_put", "profile_patch", "profile_delete"}
          /\ resp'.pk \in DOMAIN users)
       => \/ resp'.user = resp'.pk
          \/ users[resp'.user].is_staff
          \/ users[resp'.user].is_superuser
          \/ /\ resp'.status = 403
             /\ users' = users /\ tokens' = tokens /\ offers' = offers]_vars

\* C21 witness: an account that is neither staff nor superuser has been
\* refused the DELETE of another account's profile, which owns an offer
C21_Witness ==
    /\ resp.op = "profile_delete" /\ resp.status = 403
    /\ resp.pk \in DOMAIN users /\ resp.pk # resp.user
    /\ ~users[resp.user].is_staff /\ ~users[resp.user].is_superuser
    /\ \E o \in DOMAIN offers : offers[o].user = resp.pk

\* C22: a DELETE /offers/{id}/ answered 204 removes the offer and every
\* OfferDetails row of it, and leaves every other offer, every other offer's
\* details and every order as they were.
C22_DeleteFrame ==
    [][(resp'.op = "offer_delete" /\ resp'.status = 204)
       => /\ DOMAIN offers' = DOMAIN offers \ {resp'.pk}
          /\ \A o \in DOMAIN offers' : offers'[o] = offers[o]
          /\ DOMAIN details' = {d \in DOMAIN details : details[d].offer # resp'.pk}
          /\ \A d \in DOMAIN details' : details'[d] = details[d]
          /\ orders' = orders]_vars

\* C22 witness: an offer has been deleted, none of its details is left, and
\* another offer with its three details and an order are still stored
C22_Witness ==
    /\ resp.op = "offer_delete" /\ resp.status = 204
    /\ \E o \in DOMAIN offers : Cardinality(DetailsOf(details, o)) = 3
    /\ \E o \in DOMAIN orders : orders[o].business_user = 2
    /\ \A d \in DOMAIN details : details[d].offer # resp.pk

\* C23: a PATCH /offers/{id}/ writes only OfferDetails rows of that offer
\* whose offer_type is the tier tag of an entry of its details list: rows of
\* the offer with other tags and rows of every other offer are unchanged, no
\* row is created or deleted, and no row's offer_type (or offer) changes.
C23_PatchFrame ==
    [][resp'.op = "offer_patch"
       => /\ DOMAIN details' = DOMAIN details
          /\ \A d \in DOMAIN details :
                /\ details'[d].offer_type = details[d].offer_type
                /\ details'[d].offer = details[d].offer
                /\ details'[d] # details[d]
                   => /\ details[d].offer = resp'.pk
                      /\ "details" \in DOMAIN resp'.data
                      /\ \E i \in 1..Len(resp'.data.details) :
                            resp'.data.details[i].offer_type = details[d].offer_type]_vars

\* C23 witness: a PATCH has rewritten the basic tier of one offer; the
\* standard tier of that offer and the basic tier of another offer still
\* have their first titles
C23_Witness ==
    /\ resp.op = "offer_patch" /\ resp.status = 200
    /\ "details" \in DOMAIN resp.data /\ resp.data.details = <<Basic2>>
    /\ \E d \in DetailsOf(details, resp.pk) : details[d].title = "Basic v2"
    /\ \E d \in DetailsOf(details, resp.pk) : details[d].title = "Standard"
    /\ \E d \in DOMAIN details : details[d].offer # resp.pk /\ details[d].title = "Basic"

\* the columns of a tier a PATCH entry can carry
TierColumns == {"title", "revisions", "delivery_time_in_days", "price", "features"}

\* C24: PATCH /offers/{id}/ is a partial update: for an allowed requester, a
\* column of a detail row that no entry with the row's tier tag carries
\* keeps its value, the offer's title keeps its value when the body has no
\* title, and a body without a title whose entries are valid is not turned
\* away with 400.
C24_PartialUpdate ==
    [][(/\ resp'.op = "offer_patch" /\ resp'.pk \in DOMAIN offers
        /\ IsOwnerOrAdminOrReadOnly(resp'.user, offers[resp'.pk]))
       => LET data == resp'.data
              dd == GetOr(data, "details", <<>>)
          IN /\ \A d \in DetailsOf(details, resp'.pk), c \in TierColumns :
                   (\A i \in 1..Len(dd) :
                       dd[i].offer_type = details[d].offer_type => c \notin DOMAIN dd[i])
                   => (d \in DOMAIN details' /\ details'[d][c] = details[d][c])
             /\ "title" \notin DOMAIN data
                => /\ offers'[resp'.pk].title = offers[resp'.pk].title
                   /\ DetailsValid(dd) => resp'.status # 400]_vars

\* C25: a PATCH /orders/{id}/ by the order's own business user changes no
\* column of the order but status, and no other order; the status stored is
\* one of in_progress, completed, cancelled; a body with another status
\* value or with no status is answered 400 and leaves the orders unchanged.
C25_StatusOnly ==
    [][(/\ resp'.op = "order_patch" /\ resp'.pk \in DOMAIN orders
        /\ users[resp'.user].type = "business"
        /\ orders[resp'.pk].business_user = resp'.user)
       => /\ DOMAIN orders' = DOMAIN orders
          /\ \A o \in DOMAIN orders \ {resp'.pk} : orders'[o] = orders[o]
          /\ \A c \in DOMAIN orders[resp'.pk] \ {"status"} :
                orders'[resp'.pk][c] = orders[resp'.pk][c]
          /\ orders'[resp'.pk].status \in OrderStatus
          /\ ("status" \notin DOMAIN resp'.data \/ resp'.data.status \notin OrderStatus)
             => (resp'.status = 400 /\ orders' = orders)]_vars

\* C25 witness: the owning business user has completed an order, and only
\* its status differs from the tier row it was copied from
C25_Witness ==
    /\ resp.op = "order_patch" /\ resp.status = 200
    /\ resp.pk \in DOMAIN orders
    /\ orders[resp.pk].status = "completed"
    /\ orders[resp.pk].business_user = resp.user
    /\ orders[resp.pk].title = "Basic" /\ orders[resp.pk].price = "100"

\* C26: a POST /offers/ answered 400 leaves the stored data unchanged: no
\* Offer row and no OfferDetails row exists afterwards that did not before.
C26_FailedPostWritesNothing ==
    [][(resp'.op = "offer_post" /\ resp'.status = 400)
       => (offers' = offers /\ details' = details)]_vars

\* C27: a PATCH /offers/{id}/ answered 400 (an entry without offer_type, or
\* with a tier tag the offer does not have) leaves the offer and all of its
\* details exactly as they were.
C27_FailedPatchWritesNothing ==
    [][(resp'.op = "offer_patch" /\ resp'.status = 400)
       => (offers' = offers /\ details' = details)]_vars

\* C28: through any sequence of registrations and profile edits, no two
\* accounts have the same email address.
C28_EmailsUnique ==
    \A u, v \in DOMAIN users : users[u].email = users[v].email => u = v

\* C29: every OfferDetails row the offers API has stored can be ordered: a
\* customer's POST /orders/ carrying that row's id and nothing else is
\* answered 201.
C29_EveryRowOrderable ==
    (/\ resp.op = "order_post" /\ users[resp.user].type = "customer"
     /\ DOMAIN resp.data = {"offer_detail_id"}
     /\ resp.pk \in DOMAIN details)
    => resp.status = 201

\* the versions a tier row goes through in these runs: the row as POST
\* /offers/ created it and the row after each PATCH entry for its tier
RowVersions ==
    LET created == {OfferDetails(o, Tiers[i]) : o \in OfferKeys, i \in 1..3} IN
    created \cup {UpdateDetail(r, Basic2) : r \in created}

\* C30: when a POST /orders/ runs at the same time as a PATCH /offers/{id}/
\* that rewrites the row it orders, the title, revisions,
\* delivery_time_in_days, price and features of the created order all come
\* from one version of that row, never from a mixture of two.
C30_OneVersion ==
    \A o \in DOMAIN orders :
        \E v \in RowVersions : \A c \in CopiedColumns : orders[o][c] = v[c]

\* C30 witness: an order was created from the first version of the basic
\* tier although the row had been rewritten before the create ran
C30_Witness ==
    /\ resp.op = "order_post" /\ resp.status = 201
    /\ orders[resp.out].title = "Basic" /\ orders[resp.out].price = "100"
    /\ details[resp.pk].title = "Basic v2" /\ details[resp.pk].price = "150"

====
